---- MODULE Spec2Model ----
(***************************************************************************)
(* Model of combine_data_from_gmeet_and_sg.py: the discussion segmenter    *)
(* (analyze_version_discussions), the output row builder                   *)
(* (process_transcript_versions_with_time_analysis) and the residual rows  *)
(* appended by main.                                                       *)
(*                                                                         *)
(* Representation.                                                         *)
(*  - A timestamp string is the sequence of its colon-separated fields,    *)
(*    each field a two-digit decimal number: "00:01:00" is <<0, 1, 0>>,    *)
(*    "00:01" is <<0, 1>> and the empty string is << >>.  Python's string  *)
(*    order on such strings is the lexicographic order of the field        *)
(*    sequences (StrLess).                                                 *)
(*  - parse_arg and parse_ret are the argument and the outcome of a call   *)
(*    of parse_timestamp on its own (SpecParse); there a field can also be *)
(*    one that is not an integer literal, or an integer beyond the C int   *)
(*    range.                                                               *)
(*  - A transcript entry is a record; the dict object itself is named by   *)
(*    its index in chronological_order, so a conversations list is a       *)
(*    sequence of indices.                                                 *)
(*  - Discussion dicts are objects: heap[id] is the dict, discussions is   *)
(*    the list of references (ids) and current_discussion a reference or   *)
(*    None, so that `current_discussion = discussions[-1]` aliases.        *)
(***************************************************************************)
EXTENDS Integers, Sequences, FiniteSets, TLC

VARIABLES sg_data, reference_threshold, chronological_order, heap,
          discussions, current_discussion, output_rows, all_conversations,
          processed_sg_versions, pc, log, parse_arg, parse_ret

vars == <<sg_data, reference_threshold, chronological_order, heap,
          discussions, current_discussion, output_rows, all_conversations,
          processed_sg_versions, pc, log, parse_arg, parse_ret>>

\* ---------------------------------------------------------------- bounds

\* Longest transcript (number of rows of the transcript CSV).
MaxEvents == 4

\* ------------------------------------------------------------ input sets

\* argparse default of --reference-threshold.
DefaultThreshold == 30

\* Python's None.
None == "None"

\* No discussion object (current_discussion = None).
NoDiscussion == 0

\* parse_timestamp's None.
NoTime == -1

\* parse_timestamp left by the OverflowError that datetime() raises and
\* line 138 does not catch.
Overflow == -2

\* A field that is an integer literal too large for a C int, such as
\* "99999999999999999999" (no two-digit field has this value).
BeyondCInt == 100

\* A field that int() rejects, such as "ab", "1.5" or "".
NotAnInteger == 101

\* Most fields of an argument of SpecParse.
MaxFields == 4

\* Version ids that extract_version_number can yield for the rows.
Versions == {"1", "01", "2", "3"}

\* The ShotGrid tables of the runs: keys of sg_data.
KnownTables == {{}, {"1"}, {"1", "2"}}

\* sg_data[v]['notes'].
Notes(v) == <<"notes", v>>

\* int(x) of a version id, x.isdigit() being true of all of Versions.
IntOf(v) == CASE v = "1" -> 1 [] v = "01" -> 1 [] v = "2" -> 2 [] v = "3" -> 3

EmptyStr == << >>

Entry(v, ts, sp, tx) ==
    [version_num |-> v, timestamp |-> ts, speaker |-> sp, text |-> tx]

\* The rows a transcript is drawn from.  Timestamps "00:00:01", "00:00:30"
\* and "00:01:00" (29 and 30 seconds apart), the empty timestamp, and
\* "00:01", which has two fields only.
Entries ==
    {Entry("1", ts, "Alice", "hi") : ts \in {<<0, 0, 1>>, <<0, 0, 30>>, <<0, 1, 0>>}}
    \cup {Entry("2", ts, "Alice", "hi") : ts \in {<<0, 0, 30>>, <<0, 1, 0>>}}
    \cup {Entry("3", ts, "Alice", "hi") : ts \in {<<0, 0, 30>>, <<0, 1, 0>>}}
    \cup {Entry(None, EmptyStr, "Bob", "ok"),
          Entry("1", EmptyStr, "Alice", "hi"),
          Entry("1", <<0, 1>>, "Alice", "hi")}

\* The tables and rows of the runs of SpecSpeakers: a review of version 1
\* whose rows differ in speaker_name and text (a named speaker without text,
\* the speaker name 'Unknown', no speaker and no text, a blank text), one row
\* of version 2 and one row that carries nothing.
SpeakerTables == {{"1"}, {"1", "2"}}

SpeakerEntries ==
    {Entry("1", ts, st[1], st[2]) :
        ts \in {<<0, 0, 30>>, <<0, 1, 0>>},
        st \in {<<"Alice", "">>, <<"Bob", "looks good">>,
                <<"Unknown", "">>, <<"", "">>}}
    \cup {Entry("1", <<0, 1, 0>>, "Carol", " "),
          Entry("2", <<0, 1, 0>>, "Alice", "hi"),
          Entry(None, EmptyStr, "", "")}

\* The tables and rows of the runs of SpecPadded: the ShotGrid export names
\* version 1 twice, as "1" and as "01" (the pattern (\d+) keeps the zero).
PaddedTables == {{"1", "01"}, {"1", "01", "2"}}

PaddedEntries ==
    {Entry("2", <<0, 0, 30>>, "Alice", "hi"),
     Entry("1", <<0, 1, 0>>, "Alice", "hi"),
     Entry(None, EmptyStr, "Bob", "ok")}

\* The arguments of the calls of SpecParse: up to MaxFields fields, each at
\* or next to a limit of its range, not an integer, or beyond the C int
\* range.
ParseFields == {0, 23, 24, 59, 60, BeyondCInt, NotAnInteger}

ParseArgs ==
    UNION {[1..n -> ParseFields] : n \in 0..MaxFields}

\* ------------------------------------------------------ string utilities

\* text.strip() on the texts of the rows: " " is the one text with leading
\* or trailing whitespace.
strip(text) == IF text = " " THEN "" ELSE text


RECURSIVE StrLess(_, _)
\* a < b on timestamp strings.
StrLess(a, b) ==
    IF b = << >> THEN FALSE
    ELSE IF a = << >> THEN TRUE
    ELSE IF Head(a) # Head(b) THEN Head(a) < Head(b)
    ELSE StrLess(Tail(a), Tail(b))

StrLeq(a, b) == a = b \/ StrLess(a, b)

\* ------------------------------------------------------------ timestamps

\* parse_timestamp: seconds since 2000-01-01 00:00:00, or NoTime.
parse_timestamp(timestamp_str) ==
    LET fields == {timestamp_str[k] : k \in 1..Len(timestamp_str)}
    IN IF timestamp_str = EmptyStr THEN NoTime
       ELSE IF Len(timestamp_str) # 3 THEN NoTime
       ELSE IF NotAnInteger \in fields THEN NoTime
       ELSE IF BeyondCInt \in fields THEN Overflow
       ELSE IF /\ timestamp_str[1] \in 0..23
               /\ timestamp_str[2] \in 0..59
               /\ timestamp_str[3] \in 0..59
            THEN timestamp_str[1] * 3600 + timestamp_str[2] * 60 + timestamp_str[3]
            ELSE NoTime

calculate_time_difference(start_time, end_time) ==
    LET start_dt == parse_timestamp(start_time)
        end_dt == parse_timestamp(end_time)
    IN IF start_dt # NoTime /\ end_dt # NoTime THEN end_dt - start_dt ELSE 0

\* ------------------------------------------------------------- segmenter

\* The discussion dict created at lines 182-189, 226-233 and 247-254.
NewDiscussion(version_num, timestamp, i, is_sg) ==
    [version_id |-> version_num, start_time |-> timestamp, end_time |-> timestamp,
     conversations |-> <<i>>, reference_versions |-> << >>,
     is_sg_version |-> is_sg]

\* [v_id for v_id, _ in d['reference_versions']]
existing_ref_ids(d) ==
    {d.reference_versions[k][1] : k \in 1..Len(d.reference_versions)}

\* AddReference without the test against the discussion's own version_id.
AddReference_NoSelfTest(d, v_id, ts) ==
    IF v_id \notin existing_ref_ids(d)
    THEN Append(d.reference_versions, <<v_id, ts>>)
    ELSE d.reference_versions

\* AddReference without the test against existing_ref_ids.
AddReference_NoDedup(d, v_id, ts) ==
    IF v_id # d.version_id
    THEN Append(d.reference_versions, <<v_id, ts>>)
    ELSE d.reference_versions

\* The guarded append to reference_versions (lines 212-215, 238-241, 267-270).
AddReference(d, v_id, ts) ==
    IF v_id \notin existing_ref_ids(d) /\ v_id # d.version_id
    THEN Append(d.reference_versions, <<v_id, ts>>)
    ELSE d.reference_versions

\* current_duration of a discussion.
current_duration(d) == calculate_time_difference(d.start_time, d.end_time)

\* IsBrief without the comparison: every superseded discussion counts as brief.
IsBrief_Always(d, threshold) == TRUE

\* IsBrief with <= in place of <.
IsBrief_Inclusive(d, threshold) == current_duration(d) <= threshold

\* current_duration < reference_threshold
IsBrief(d, threshold) == current_duration(d) < threshold

\* MergedEndTime taking the merged discussion's start_time, unguarded.
MergedEndTime_FromStart(prev_main, cur) == cur.start_time

\* The end_time kept by a merge (lines 218-219, 272-273): string comparison.
MergedEndTime(prev_main, cur) ==
    IF StrLess(prev_main.end_time, cur.end_time) THEN cur.end_time
    ELSE prev_main.end_time

\* MergeAsReference with the merged events put before prev_main's own.
MergeAsReference_Prepend(prev_main, cur) ==
    [prev_main EXCEPT
        !.reference_versions = AddReference(prev_main, cur.version_id, cur.start_time),
        !.conversations = cur.conversations \o prev_main.conversations,
        !.end_time = MergedEndTime(prev_main, cur)]

\* MergeAsReference without line 216: the merged events are dropped.
MergeAsReference_NoExtend(prev_main, cur) ==
    [prev_main EXCEPT
        !.reference_versions = AddReference(prev_main, cur.version_id, cur.start_time),
        !.end_time = MergedEndTime(prev_main, cur)]

\* Lines 210-219 and 265-273: the discussion cur folded into prev_main.
\* When both names denote one object, extend() appends the list to itself.
MergeAsReference(prev_main, cur) ==
    [prev_main EXCEPT
        !.reference_versions = AddReference(prev_main, cur.version_id, cur.start_time),
        !.conversations = prev_main.conversations \o cur.conversations,
        !.end_time = MergedEndTime(prev_main, cur)]

\* MentionInLast without the assignment to end_time (line 243).
MentionInLast_KeepEnd(last, version_num, timestamp, i) ==
    [last EXCEPT
        !.reference_versions = AddReference(last, version_num, timestamp),
        !.conversations = Append(last.conversations, i)]

\* Lines 236-243: an unknown version mentioned while discussions[-1] exists.
MentionInLast(last, version_num, timestamp, i) ==
    [last EXCEPT
        !.reference_versions = AddReference(last, version_num, timestamp),
        !.conversations = Append(last.conversations, i),
        !.end_time = timestamp]

Last(s) == s[Len(s)]

\* What AddReference(d, v_id, _) does: "added", or the guard that refused,
\* "dup" (v_id is referenced already) or "self" (v_id is d's own version).
RefOutcome(d, v_id) ==
    IF v_id \in existing_ref_ids(d) THEN "dup"
    ELSE IF v_id = d.version_id THEN "self"
    ELSE "added"

\* One record of the history of the pass: the branch taken (op), for a
\* superseded discussion its reference, its duration and whether it was
\* merged or finalized, the discussions[-1] of the moment (target) and what
\* the two guarded appends to reference_versions did.
LogRec(op, decision, dur, merge_ref, mention_ref, tgt, cur) ==
    [op |-> op, decision |-> decision, duration |-> dur,
     merge_ref |-> merge_ref, mention_ref |-> mention_ref,
     target |-> tgt, superseded |-> cur]

\* ContextualAppend that also moves end_time to the entry's timestamp.
ContextualAppend_EndTime(d, entry, i) ==
    [d EXCEPT !.conversations = Append(@, i), !.end_time = entry.timestamp]

\* Line 173: current_discussion['conversations'].append(entry).
ContextualAppend(d, entry, i) ==
    [d EXCEPT !.conversations = Append(@, i)]

\* Lines 170-174: an entry without version or timestamp.
SkipEntry(entry) ==
    /\ pc = "loop"
    /\ Len(chronological_order) < MaxEvents
    /\ entry.version_num = None \/ entry.timestamp = EmptyStr
    /\ LET i == Len(chronological_order) + 1
       IN /\ chronological_order' = Append(chronological_order, entry)
          /\ heap' = IF current_discussion # NoDiscussion
                     THEN [heap EXCEPT ![current_discussion] =
                               ContextualAppend(@, entry, i)]
                     ELSE heap
          /\ log' = Append(log, LogRec("skip", "none", 0, "none", "none",
                                       current_discussion, NoDiscussion))
    /\ UNCHANGED <<parse_arg, parse_ret>>
    /\ UNCHANGED <<sg_data, reference_threshold, discussions, current_discussion,
                   output_rows, all_conversations, processed_sg_versions, pc>>

\* IsSgVersion with every version id taken as known.
IsSgVersion_Always(version_num, sg) == TRUE

\* is_sg_version = version_num in sg_data (lines 177 and 201).
IsSgVersion(version_num, sg) == version_num \in sg

\* Lines 176-190: no current discussion yet.
FirstEntry(entry) ==
    /\ pc = "loop"
    /\ Len(chronological_order) < MaxEvents
    /\ entry.version_num # None /\ entry.timestamp # EmptyStr
    /\ current_discussion = NoDiscussion
    /\ LET i == Len(chronological_order) + 1
           is_sg_version == IsSgVersion(entry.version_num, sg_data)
       IN /\ chronological_order' = Append(chronological_order, entry)
          /\ IF is_sg_version
             THEN /\ heap' = Append(heap, NewDiscussion(entry.version_num,
                                                       entry.timestamp, i, TRUE))
                  /\ current_discussion' = Len(heap) + 1
             ELSE UNCHANGED <<heap, current_discussion>>
          /\ log' = Append(log, LogRec("first", "none", 0, "none", "none",
                                       current_discussion', NoDiscussion))
    /\ UNCHANGED <<parse_arg, parse_ret>>
    /\ UNCHANGED <<sg_data, reference_threshold, discussions, output_rows,
                   all_conversations, processed_sg_versions, pc>>

\* Lines 192-197: the entry continues the current discussion.
ContinueEntry(entry) ==
    /\ pc = "loop"
    /\ Len(chronological_order) < MaxEvents
    /\ entry.version_num # None /\ entry.timestamp # EmptyStr
    /\ current_discussion # NoDiscussion
    /\ entry.version_num = heap[current_discussion].version_id
    /\ LET i == Len(chronological_order) + 1
       IN /\ chronological_order' = Append(chronological_order, entry)
          /\ heap' = [heap EXCEPT
                         ![current_discussion].conversations = Append(@, i),
                         ![current_discussion].end_time = entry.timestamp]
          /\ log' = Append(log, LogRec("continue", "none", 0, "none", "none",
                                       current_discussion, NoDiscussion))
    /\ UNCHANGED <<parse_arg, parse_ret>>
    /\ UNCHANGED <<sg_data, reference_threshold, discussions, current_discussion,
                   output_rows, all_conversations, processed_sg_versions, pc>>

\* Lines 207-208 and 263: is the superseded discussion merged?
MergesAtSwitch(h, ds, cur, threshold) ==
    IsBrief(h[cur], threshold) /\ Len(ds) > 0

\* MergesAtEnd answering no: the final discussion is always appended.
MergesAtEnd_Never(h, ds, cur, threshold) == FALSE

MergesAtEnd(h, ds, cur, threshold) ==
    IsBrief(h[cur], threshold) /\ Len(ds) > 0 /\ h[cur].is_sg_version

\* Lines 208-222 and 263-275: heap and discussions after the superseded
\* discussion cur is merged into discussions[-1] or appended.
HeapAfterSupersede(h, ds, cur, merges) ==
    IF merges
    THEN [h EXCEPT ![Last(ds)] = MergeAsReference(h[Last(ds)], h[cur])]
    ELSE h

\* DiscussionsAfterSupersede without line 222: a discussion that is not
\* merged is dropped.
DiscussionsAfterSupersede_Dropped(ds, cur, merges) == ds

\* DiscussionsAfterSupersede that appends the superseded discussion even
\* when it was merged.
DiscussionsAfterSupersede_AlwaysAppend(ds, cur, merges) == Append(ds, cur)

\* DiscussionsAfterSupersede with insert(0, ...) in place of append.
DiscussionsAfterSupersede_Prepend(ds, cur, merges) ==
    IF merges THEN ds ELSE <<cur>> \o ds

\* DiscussionsAfterSupersede that appends only to a non-empty list.
DiscussionsAfterSupersede_SkipFirst(ds, cur, merges) ==
    IF merges \/ ds = << >> THEN ds ELSE Append(ds, cur)

DiscussionsAfterSupersede(ds, cur, merges) ==
    IF merges THEN ds ELSE Append(ds, cur)

\* Lines 199-254: the entry names another version than the current one.
SwitchEntry(entry) ==
    /\ pc = "loop"
    /\ Len(chronological_order) < MaxEvents
    /\ entry.version_num # None /\ entry.timestamp # EmptyStr
    /\ current_discussion # NoDiscussion
    /\ entry.version_num # heap[current_discussion].version_id
    /\ LET i == Len(chronological_order) + 1
           is_sg_version == IsSgVersion(entry.version_num, sg_data)
           merges == MergesAtSwitch(heap, discussions, current_discussion,
                                    reference_threshold)
           heap1 == HeapAfterSupersede(heap, discussions, current_discussion, merges)
           discussions1 == DiscussionsAfterSupersede(discussions,
                                                     current_discussion, merges)
           fresh == Len(heap1) + 1
       IN /\ chronological_order' = Append(chronological_order, entry)
          /\ discussions' = discussions1
          /\ IF is_sg_version
             THEN /\ heap' = Append(heap1, NewDiscussion(entry.version_num,
                                                        entry.timestamp, i, TRUE))
                  /\ current_discussion' = fresh
             ELSE IF discussions1 # << >>
             THEN /\ heap' = [heap1 EXCEPT ![Last(discussions1)] =
                                 MentionInLast(heap1[Last(discussions1)],
                                               entry.version_num, entry.timestamp, i)]
                  /\ current_discussion' = Last(discussions1)
             ELSE /\ heap' = Append(heap1, NewDiscussion(entry.version_num,
                                                        entry.timestamp, i, FALSE))
                  /\ current_discussion' = fresh
          /\ log' = Append(log,
                LogRec("switch",
                       IF merges THEN "merge" ELSE "finalize",
                       current_duration(heap[current_discussion]),
                       IF merges
                       THEN RefOutcome(heap[Last(discussions)],
                                       heap[current_discussion].version_id)
                       ELSE "none",
                       IF ~is_sg_version /\ discussions1 # << >>
                       THEN RefOutcome(heap1[Last(discussions1)], entry.version_num)
                       ELSE "none",
                       IF Len(discussions) > 0 THEN Last(discussions) ELSE NoDiscussion,
                       current_discussion))
    /\ UNCHANGED <<parse_arg, parse_ret>>
    /\ UNCHANGED <<sg_data, reference_threshold, output_rows, all_conversations,
                   processed_sg_versions, pc>>

\* ------------------------------------------------------------ output rows

\* Lines 292-309: indices of the entries before the first entry whose
\* version is in sg_data.
pre_discussion_conversations(order, sg) ==
    LET hits == {k \in 1..Len(order) :
                    order[k].version_num # None /\ order[k].version_num \in sg}
        stop == IF hits = {} THEN Len(order) + 1
                ELSE CHOOSE k \in hits : \A j \in hits : k <= j
    IN [k \in 1..(stop - 1) |-> k]

\* min() of a non-empty set of strings.
MinStr(S) ==
    CHOOSE a \in S : \A b \in S : StrLeq(a, b)

\* get_earliest_timestamp (lines 117-123) of a list of entry indices.
get_earliest_timestamp(order, conversations) ==
    LET timestamps == {order[conversations[k]].timestamp : k \in 1..Len(conversations)}
                      \ {EmptyStr}
    IN IF conversations = << >> \/ timestamps = {} THEN EmptyStr
       ELSE MinStr(timestamps)

RECURSIVE InsertByTimestamp(_, _, _)
\* x inserted after the last element whose timestamp is <= its own.
InsertByTimestamp(order, sorted, x) ==
    IF sorted = << >> THEN <<x>>
    ELSE IF StrLess(order[x].timestamp, order[Last(sorted)].timestamp)
         THEN Append(InsertByTimestamp(order, SubSeq(sorted, 1, Len(sorted) - 1), x),
                     Last(sorted))
         ELSE Append(sorted, x)

RECURSIVE sorted_conversations(_, _)
\* sorted(conversations, key=timestamp): stable (line 99).
sorted_conversations(order, conversations) ==
    IF conversations = << >> THEN << >>
    ELSE InsertByTimestamp(order,
             sorted_conversations(order, SubSeq(conversations, 1, Len(conversations) - 1)),
             Last(conversations))

RECURSIVE FormatLines_AnySpeaker(_, _)
\* FormatLines with `elif speaker:` in place of line 109.
FormatLines_AnySpeaker(order, convs) ==
    IF convs = << >> THEN << >>
    ELSE LET conv == order[Head(convs)]
             speaker == conv.speaker
             text == strip(conv.text)
             rest == FormatLines_AnySpeaker(order, Tail(convs))
         IN IF text # ""
            THEN <<(<<speaker, text>>)>> \o rest
            ELSE IF speaker # ""
            THEN <<(<<speaker, "[conversation occurred]">>)>> \o rest
            ELSE rest

RECURSIVE FormatLines_NoStrip(_, _)
\* FormatLines without the strip() of line 104.
FormatLines_NoStrip(order, convs) ==
    IF convs = << >> THEN << >>
    ELSE LET conv == order[Head(convs)]
             speaker == conv.speaker
             text == conv.text
             rest == FormatLines_NoStrip(order, Tail(convs))
         IN IF text # ""
            THEN <<(<<speaker, text>>)>> \o rest
            ELSE IF speaker # "" /\ speaker # "Unknown"
            THEN <<(<<speaker, "[conversation occurred]">>)>> \o rest
            ELSE rest

RECURSIVE FormatLines(_, _)
\* The loop of lines 101-112 over the sorted entries.
FormatLines(order, convs) ==
    IF convs = << >> THEN << >>
    ELSE LET conv == order[Head(convs)]
             speaker == conv.speaker
             text == strip(conv.text)
             rest == FormatLines(order, Tail(convs))
         IN IF text # ""
            THEN <<(<<speaker, text>>)>> \o rest
            ELSE IF speaker # "" /\ speaker # "Unknown"
            THEN <<(<<speaker, "[conversation occurred]">>)>> \o rest
            ELSE rest

\* format_conversation (lines 93-114): the lines joined by "\n", each line
\* "<speaker>: <text>" a pair; no line is the empty string.
format_conversation(order, conversations) ==
    FormatLines(order, sorted_conversations(order, conversations))

\* The row dict of lines 330-336 and 397-403.
OutputRow(timestamp, version_id, conversation, sg_summary, reference_versions) ==
    [timestamp |-> timestamp, version_id |-> version_id,
     conversation |-> conversation, sg_summary |-> sg_summary,
     reference_versions |-> reference_versions]

\* all_conversations of lines 320-322.
AllConversations(order, sg, d, n_rows) ==
    IF n_rows = 0 /\ pre_discussion_conversations(order, sg) # << >>
    THEN pre_discussion_conversations(order, sg) \o d.conversations
    ELSE d.conversations

RECURSIVE DiscussionRows(_, _, _, _, _)
\* Lines 311-336: the rows of the discussions ds[k..], rows being those built
\* so far.
DiscussionRows(order, sg, h, ds, rows) ==
    IF ds = << >> THEN rows
    ELSE LET discussion == h[Head(ds)]
             version_num == discussion.version_id
             convs == AllConversations(order, sg, discussion, Len(rows))
         IN IF version_num \in sg
            THEN DiscussionRows(order, sg, h, Tail(ds),
                    Append(rows,
                        OutputRow(get_earliest_timestamp(order, convs),
                                  version_num,
                                  format_conversation(order, convs),
                                  Notes(version_num),
                                  discussion.reference_versions)))
            ELSE DiscussionRows(order, sg, h, Tail(ds), rows)

RECURSIVE DiscussionConversations(_, _, _, _, _)
\* all_conversations of each row of DiscussionRows, in row order.
DiscussionConversations(order, sg, h, ds, lists) ==
    IF ds = << >> THEN lists
    ELSE LET discussion == h[Head(ds)]
         IN IF discussion.version_id \in sg
            THEN DiscussionConversations(order, sg, h, Tail(ds),
                    Append(lists, AllConversations(order, sg, discussion, Len(lists))))
            ELSE DiscussionConversations(order, sg, h, Tail(ds), lists)

\* processed_sg_versions (line 317).
ProcessedVersions(sg, h, ds) ==
    {h[ds[k]].version_id : k \in 1..Len(ds)} \cap sg

\* sorted(remaining_sg_versions, key=int) (line 395): the lists it can
\* return.  The sort is stable over the iteration order of a set of str,
\* which depends on the hash seed of the process, so versions with equal
\* keys ("1" and "01") come out in either order.
SortedByInt(S) ==
    {seq \in [1..Cardinality(S) -> S] :
        \A i, j \in 1..Cardinality(S) :
            i < j => seq[i] # seq[j] /\ IntOf(seq[i]) <= IntOf(seq[j])}

RECURSIVE ResidualRows_EmptySummary(_)
\* ResidualRows with 'sg_summary': '' in place of the version's notes.
ResidualRows_EmptySummary(versions) ==
    IF versions = << >> THEN << >>
    ELSE <<OutputRow(EmptyStr, Head(versions), << >>, EmptyStr, << >>)>>
         \o ResidualRows_EmptySummary(Tail(versions))

RECURSIVE ResidualRows(_)
\* Lines 395-403.
ResidualRows(versions) ==
    IF versions = << >> THEN << >>
    ELSE <<OutputRow(EmptyStr, Head(versions), << >>, Notes(Head(versions)), << >>)>>
         \o ResidualRows(Tail(versions))

\* Lines 256-277 of analyze_version_discussions, then lines 286-338 of
\* process_transcript_versions_with_time_analysis and lines 391-403 of main.
Finish ==
    /\ pc = "loop"
    /\ LET merges == current_discussion # NoDiscussion
                     /\ MergesAtEnd(heap, discussions, current_discussion,
                                    reference_threshold)
           heap1 == IF current_discussion # NoDiscussion
                    THEN HeapAfterSupersede(heap, discussions, current_discussion, merges)
                    ELSE heap
           discussions1 == IF current_discussion # NoDiscussion
                           THEN DiscussionsAfterSupersede(discussions,
                                                          current_discussion, merges)
                           ELSE discussions
           processed == ProcessedVersions(sg_data, heap1, discussions1)
       IN /\ heap' = heap1
          /\ discussions' = discussions1
          /\ processed_sg_versions' = processed
          /\ \E remaining \in SortedByInt(sg_data \ processed) :
                output_rows' =
                    DiscussionRows(chronological_order, sg_data, heap1,
                                   discussions1, << >>)
                    \o ResidualRows(remaining)
          /\ all_conversations' =
                DiscussionConversations(chronological_order, sg_data, heap1,
                                        discussions1, << >>)
          /\ log' = IF current_discussion = NoDiscussion THEN log
                    ELSE Append(log,
                           LogRec("final",
                                  IF merges THEN "merge" ELSE "finalize",
                                  current_duration(heap[current_discussion]),
                                  IF merges
                                  THEN RefOutcome(heap[Last(discussions)],
                                                  heap[current_discussion].version_id)
                                  ELSE "none",
                                  "none",
                                  IF Len(discussions) > 0 THEN Last(discussions)
                                  ELSE NoDiscussion,
                                  current_discussion))
    /\ pc' = "done"
    /\ UNCHANGED <<parse_arg, parse_ret>>
    /\ UNCHANGED <<sg_data, reference_threshold, chronological_order,
                   current_discussion>>

\* ---------------------------------------------------------- specification

Init ==
    /\ sg_data \in KnownTables
    /\ reference_threshold = DefaultThreshold
    /\ chronological_order = << >>
    /\ heap = << >>
    /\ discussions = << >>
    /\ current_discussion = NoDiscussion
    /\ output_rows = << >>
    /\ all_conversations = << >>
    /\ processed_sg_versions = {}
    /\ pc = "loop"
    /\ log = << >>
    /\ parse_arg = EmptyStr
    /\ parse_ret = NoTime

Next ==
    \/ \E entry \in Entries :
          \/ SkipEntry(entry)
          \/ FirstEntry(entry)
          \/ ContinueEntry(entry)
          \/ SwitchEntry(entry)
    \/ Finish

Spec == Init /\ [][Next]_vars

\* The runs over SpeakerTables and SpeakerEntries.
InitSpeakers ==
    /\ sg_data \in SpeakerTables
    /\ reference_threshold = DefaultThreshold
    /\ chronological_order = << >>
    /\ heap = << >>
    /\ discussions = << >>
    /\ current_discussion = NoDiscussion
    /\ output_rows = << >>
    /\ all_conversations = << >>
    /\ processed_sg_versions = {}
    /\ pc = "loop"
    /\ log = << >>
    /\ parse_arg = EmptyStr
    /\ parse_ret = NoTime

NextSpeakers ==
    \/ \E entry \in SpeakerEntries :
          \/ SkipEntry(entry)
          \/ FirstEntry(entry)
          \/ ContinueEntry(entry)
          \/ SwitchEntry(entry)
    \/ Finish

SpecSpeakers == InitSpeakers /\ [][NextSpeakers]_vars

\* The runs over PaddedTables and PaddedEntries.
InitPadded ==
    /\ sg_data \in PaddedTables
    /\ reference_threshold = DefaultThreshold
    /\ chronological_order = << >>
    /\ heap = << >>
    /\ discussions = << >>
    /\ current_discussion = NoDiscussion
    /\ output_rows = << >>
    /\ all_conversations = << >>
    /\ processed_sg_versions = {}
    /\ pc = "loop"
    /\ log = << >>
    /\ parse_arg = EmptyStr
    /\ parse_ret = NoTime

NextPadded ==
    \/ \E entry \in PaddedEntries :
          \/ SkipEntry(entry)
          \/ FirstEntry(entry)
          \/ ContinueEntry(entry)
          \/ SwitchEntry(entry)
    \/ Finish

SpecPadded == InitPadded /\ [][NextPadded]_vars

\* One call parse_timestamp(parse_arg).
InitParse ==
    /\ parse_arg \in ParseArgs
    /\ parse_ret = NoTime
    /\ pc = "call"
    /\ sg_data = {}
    /\ reference_threshold = DefaultThreshold
    /\ chronological_order = << >>
    /\ heap = << >>
    /\ discussions = << >>
    /\ current_discussion = NoDiscussion
    /\ output_rows = << >>
    /\ all_conversations = << >>
    /\ processed_sg_versions = {}
    /\ log = << >>

ParseTimestamp ==
    /\ pc = "call"
    /\ parse_ret' = parse_timestamp(parse_arg)
    /\ pc' = IF parse_timestamp(parse_arg) = Overflow THEN "raised" ELSE "returned"
    /\ UNCHANGED <<parse_arg, sg_data, reference_threshold, chronological_order,
                   heap, discussions, current_discussion, output_rows,
                   all_conversations, processed_sg_versions, log>>

NextParse == ParseTimestamp

SpecParse == InitParse /\ [][NextParse]_vars

\* ------------------------------------------------------------ properties

Range(s) == {s[k] : k \in 1..Len(s)}

\* Indices of the output rows of version v.
RowsFor(v) == {k \in 1..Len(output_rows) : output_rows[k].version_id = v}

\* Version ids of a serialized reference list.
RefIds(refs) == {refs[k][1] : k \in 1..Len(refs)}

\* A row with empty timestamp, conversation and reference_versions.
IsPlaceholder(row) ==
    row.timestamp = EmptyStr /\ row.conversation = << >> /\ row.reference_versions = << >>

\* A non-empty timestamp that is not of HH:MM:SS shape.
Malformed(ts) == ts # EmptyStr /\ parse_timestamp(ts) = NoTime

\* The non-empty timestamps of the transcript are in non-decreasing order.
SortedInput(order) ==
    \A i, j \in 1..Len(order) :
        (i < j /\ order[i].timestamp # EmptyStr /\ order[j].timestamp # EmptyStr)
            => StrLeq(order[i].timestamp, order[j].timestamp)

\* This step processes one more transcript entry.
EntryStep == pc = "loop" /\ Len(chronological_order') = Len(chronological_order) + 1

\* This step supersedes the active discussion while a finalized one exists:
\* a switch to another version, or the end of the stream.
Supersedes ==
    /\ pc = "loop"
    /\ current_discussion # NoDiscussion
    /\ Len(discussions) > 0
    /\ \/ pc' = "done"
       \/ /\ EntryStep
          /\ Last(chronological_order').version_num # None
          /\ Last(chronological_order').timestamp # EmptyStr
          /\ Last(chronological_order').version_num
                # heap[current_discussion].version_id

\* C1: after the run, the output rows hold every version id of the known
\* table exactly once and no version id outside it.
C1_CoverageInvariant ==
    pc = "done" =>
        /\ \A v \in sg_data : Cardinality(RowsFor(v)) = 1
        /\ \A k \in 1..Len(output_rows) : output_rows[k].version_id \in sg_data

\* C2: no discussion's reference_versions holds the discussion's own
\* version_id, and no output row lists its own version_id among its
\* reference_versions.
C2_SelfReferenceExclusion ==
    /\ \A id \in 1..Len(heap) : heap[id].version_id \notin existing_ref_ids(heap[id])
    /\ \A k \in 1..Len(output_rows) :
          output_rows[k].version_id \notin RefIds(output_rows[k].reference_versions)

\* A brief discussion was merged into another, finalized discussion of the
\* same version: only the test against the own version_id kept the reference
\* out.
C2_Witness ==
    /\ pc = "done"
    /\ \E k \in 1..Len(log) :
          /\ log[k].decision = "merge"
          /\ log[k].merge_ref = "self"
          /\ log[k].target # log[k].superseded

\* C3: when the active discussion is superseded and a finalized discussion
\* exists, a duration of at least reference_threshold (so exactly
\* reference_threshold too) finalizes it as a discussion of its own, and a
\* smaller one (so reference_threshold - 1 too) merges its events into the
\* last finalized discussion and does not finalize it.
C3_ThresholdBoundary ==
    [][Supersedes =>
        LET cur == heap[current_discussion]
            prev_main == heap[Last(discussions)]
            merged == prev_main.conversations \o cur.conversations
        IN /\ current_duration(cur) >= reference_threshold
                => discussions' = Append(discussions, current_discussion)
           /\ current_duration(cur) < reference_threshold
                => /\ discussions' = discussions
                   /\ Len(heap'[Last(discussions)].conversations) >= Len(merged)
                   /\ SubSeq(heap'[Last(discussions)].conversations, 1, Len(merged))
                         = merged]_vars

\* Both sides of the boundary in one pass: a discussion of exactly
\* reference_threshold seconds was superseded while another discussion was
\* finalized, and was finalized itself; one of reference_threshold - 1
\* seconds was merged.
C3_Witness ==
    /\ \E k \in 1..Len(log) :
          /\ log[k].op \in {"switch", "final"}
          /\ log[k].target # NoDiscussion
          /\ log[k].target # log[k].superseded
          /\ log[k].duration = reference_threshold
          /\ log[k].decision = "finalize"
    /\ \E k \in 1..Len(log) :
          /\ log[k].op \in {"switch", "final"}
          /\ log[k].target # NoDiscussion
          /\ log[k].duration = reference_threshold - 1
          /\ log[k].decision = "merge"

\* C4: for timestamp-sorted input, at every step every discussion has
\* start_time <= end_time, and neither time of a discussion decreases.
C4_MonotonicTime ==
    [][SortedInput(chronological_order') =>
        \A id \in 1..Len(heap') :
            /\ StrLeq(heap'[id].start_time, heap'[id].end_time)
            /\ id <= Len(heap) =>
                  /\ StrLeq(heap[id].start_time, heap'[id].start_time)
                  /\ StrLeq(heap[id].end_time, heap'[id].end_time)]_vars

\* On sorted input a later discussion was merged into an earlier one, whose
\* end_time the merge moved past its start_time.
C4_Witness ==
    /\ SortedInput(chronological_order)
    /\ \E k \in 1..Len(log) :
          /\ log[k].decision = "merge"
          /\ log[k].target # log[k].superseded
          /\ heap[log[k].target].end_time = heap[log[k].superseded].end_time
          /\ StrLess(heap[log[k].target].start_time, heap[log[k].target].end_time)

\* C5: a known version V interrupted by one event of an unknown version W
\* (a run of 0 seconds) and then continued yields exactly one row for V,
\* which references W at the timestamp of W's event, and no row for W.
C5_BriefReferenceMerge ==
    (/\ pc = "done"
     /\ Len(chronological_order) = 3
     /\ SortedInput(chronological_order)
     /\ \A k \in 1..3 : parse_timestamp(chronological_order[k].timestamp) # NoTime
     /\ chronological_order[1].version_num \in sg_data
     /\ chronological_order[2].version_num \in Versions \ sg_data
     /\ chronological_order[3].version_num = chronological_order[1].version_num)
    => LET V == chronological_order[1].version_num
           W == chronological_order[2].version_num
       IN /\ Cardinality(RowsFor(V)) = 1
          /\ \A k \in RowsFor(V) :
                <<W, chronological_order[2].timestamp>>
                    \in Range(output_rows[k].reference_versions)
          /\ RowsFor(W) = {}

\* C6: a placeholder row exists for a known version if and only if no
\* transcript event carries that version id.
C6_ResidualExactly ==
    pc = "done" =>
        \A v \in sg_data :
            (\E k \in RowsFor(v) : IsPlaceholder(output_rows[k]))
            <=> (\A i \in 1..Len(chronological_order) :
                    chronological_order[i].version_num # v)

\* C7: when a known-version discussion exists, every event before the event
\* that begins the first discussion is among the events of the first row.
C7_PreDiscussionPool ==
    (pc = "done" /\ discussions # << >> /\ all_conversations # << >>) =>
        \A i \in 1..(Head(heap[discussions[1]].conversations) - 1) :
            i \in Range(all_conversations[1])

\* C8: an entry with a malformed timestamp is handled like one with an empty
\* timestamp: it is appended to the active discussion, if any, and changes
\* nothing else.
C8_MalformedAsAbsent ==
    [][(EntryStep /\ Malformed(Last(chronological_order').timestamp)) =>
        /\ discussions' = discussions
        /\ current_discussion' = current_discussion
        /\ heap' = IF current_discussion # NoDiscussion
                   THEN [heap EXCEPT ![current_discussion].conversations =
                             Append(@, Len(chronological_order'))]
                   ELSE heap]_vars

\* C9: every version id among an output row's reference_versions is outside
\* the known table.
C9_ReferencesUnknown ==
    \A k \in 1..Len(output_rows) :
        RefIds(output_rows[k].reference_versions) \cap sg_data = {}

\* C10: a discussion's reference_versions never holds two entries of one
\* version id, and a step only appends to it: the entries it holds, with
\* their timestamps, stay as they are.
C10_ReferenceDedup ==
    [][\A id \in 1..Len(heap') :
          LET refs == heap'[id].reference_versions
          IN /\ \A a, b \in 1..Len(refs) : refs[a][1] = refs[b][1] => a = b
             /\ id <= Len(heap) =>
                   /\ Len(heap[id].reference_versions) <= Len(refs)
                   /\ SubSeq(refs, 1, Len(heap[id].reference_versions))
                         = heap[id].reference_versions]_vars

\* A version already referenced by a discussion was mentioned again, and the
\* test against existing_ref_ids kept the second entry out.
C10_Witness ==
    \E k \in 1..Len(log) :
        /\ log[k].mention_ref = "dup"
        /\ heap[log[k].target].reference_versions # << >>

\* The version ids carried by the transcript rows.
MentionedVersions(order) == {order[k].version_num : k \in 1..Len(order)}

\* C11: after the run, every version of the known table that no transcript
\* row carries has an output row with empty timestamp, empty conversation
\* and empty reference_versions whose sg_summary is that version's notes;
\* it has no other row.
C11_ResidualRowContent ==
    pc = "done" =>
        \A v \in sg_data \ MentionedVersions(chronological_order) :
            /\ RowsFor(v) # {}
            /\ \A k \in RowsFor(v) :
                  /\ IsPlaceholder(output_rows[k])
                  /\ output_rows[k].sg_summary = Notes(v)
            /\ Cardinality(RowsFor(v)) = 1

\* Version 2 is known and never mentioned while version 1 is discussed and
\* version 3 is referenced: the last row is the placeholder of version 2.
C11_Witness ==
    /\ pc = "done"
    /\ sg_data = {"1", "2"}
    /\ MentionedVersions(chronological_order) = {"1", "3"}
    /\ Len(output_rows) >= 2
    /\ ~IsPlaceholder(output_rows[1])
    /\ output_rows[Len(output_rows)]
          = OutputRow(EmptyStr, "2", << >>, Notes("2"), << >>)

\* The transcript is a review of the single known version v: every row
\* carries v and a timestamp of HH:MM:SS shape, the rows are in time order,
\* and the first and the last are at least the threshold apart.
SingleVersionTranscript(v) ==
    LET order == chronological_order
        t(k) == parse_timestamp(order[k].timestamp)
    IN /\ v \in sg_data
       /\ Len(order) >= 1
       /\ \A k \in 1..Len(order) : order[k].version_num = v /\ t(k) # NoTime
       /\ \A k \in 1..(Len(order) - 1) : t(k) <= t(k + 1)
       /\ t(Len(order)) - t(1) >= reference_threshold

\* '<speaker>: <text>', or '<speaker>: [conversation occurred]' for a row
\* without text.
SpokenLine(e) ==
    IF strip(e.text) # "" THEN <<e.speaker, strip(e.text)>>
    ELSE <<e.speaker, "[conversation occurred]">>

\* The row has text, or a speaker name other than 'Unknown'.
HasLine(e) ==
    strip(e.text) # "" \/ (e.speaker # "" /\ e.speaker # "Unknown")

\* C12 as stated: a transcript made only of rows of one known version,
\* first and last at least the threshold apart, gives exactly one output row
\* for that version, with the first row's timestamp, no references, and a
\* conversation of one line per transcript row, in order.
C12_OneLinePerEvent ==
    pc = "done" =>
        \A v \in Versions :
            SingleVersionTranscript(v) =>
                /\ Cardinality(RowsFor(v)) = 1
                /\ \A r \in RowsFor(v) :
                      /\ output_rows[r].timestamp = chronological_order[1].timestamp
                      /\ output_rows[r].reference_versions = << >>
                      /\ output_rows[r].conversation
                            = [k \in 1..Len(chronological_order) |->
                                  SpokenLine(chronological_order[k])]

\* C12, amended: as above, the conversation holding one line for each
\* transcript row that has text or a speaker name other than 'Unknown', in
\* order, and no line for the other rows.
C12_SingleVersionDiscussion ==
    pc = "done" =>
        \A v \in Versions :
            SingleVersionTranscript(v) =>
                /\ Cardinality(RowsFor(v)) = 1
                /\ \A r \in RowsFor(v) :
                      LET spoken == SelectSeq(chronological_order, HasLine)
                      IN /\ output_rows[r].timestamp = chronological_order[1].timestamp
                         /\ output_rows[r].reference_versions = << >>
                         /\ output_rows[r].conversation
                               = [k \in 1..Len(spoken) |-> SpokenLine(spoken[k])]

\* A review of version 1 in three rows or more, one by a named speaker
\* without text and one by 'Unknown' without text, beside a known version
\* that is never mentioned.
C12_Witness ==
    /\ pc = "done"
    /\ sg_data = {"1", "2"}
    /\ SingleVersionTranscript("1")
    /\ Len(chronological_order) >= 3
    /\ \E k \in 1..Len(chronological_order) :
          chronological_order[k].speaker = "Alice" /\ chronological_order[k].text = ""
    /\ \E k \in 1..Len(chronological_order) :
          chronological_order[k].speaker = "Unknown"
    /\ \E r \in RowsFor("1") :
          /\ <<"Alice", "[conversation occurred]">> \in Range(output_rows[r].conversation)
          /\ Len(output_rows[r].conversation) < Len(chronological_order)

\* The timestamps of HH:MM:SS shape among the entries of a conversations list.
TimedStamps(order, convs) ==
    {order[convs[k]].timestamp : k \in 1..Len(convs)}
        \ {ts \in {order[convs[k]].timestamp : k \in 1..Len(convs)} :
               parse_timestamp(ts) = NoTime}

\* C13: the timestamp of every row built from a discussion is the earliest
\* time among the events passed into that row (the discussion's own, the
\* merged ones and the prepended pre-discussion ones), and the empty string
\* when none of them has a time.
C13_EarliestTimestamp ==
    pc = "done" =>
        \A k \in 1..Len(all_conversations) :
            LET stamps == TimedStamps(chronological_order, all_conversations[k])
            IN IF stamps = {} THEN output_rows[k].timestamp = EmptyStr
               ELSE /\ output_rows[k].timestamp \in stamps
                    /\ \A ts \in stamps :
                          parse_timestamp(output_rows[k].timestamp)
                              <= parse_timestamp(ts)

\* C14: with an empty known-version table no discussion is ever created and
\* the run ends with zero output rows.
C14_EmptyKnownTable ==
    sg_data = {} =>
        /\ heap = << >>
        /\ discussions = << >>
        /\ current_discussion = NoDiscussion
        /\ pc = "done" => output_rows = << >> /\ processed_sg_versions = {}

\* A finished run over the empty table whose transcript has rows with a
\* version id and a timestamp.
C14_Witness ==
    /\ pc = "done"
    /\ sg_data = {}
    /\ Len(chronological_order) >= 3
    /\ \A k \in 1..Len(chronological_order) :
          /\ chronological_order[k].version_num # None
          /\ chronological_order[k].timestamp # EmptyStr
    /\ output_rows = << >>

\* A sequence without repeated elements.
NoRepeats(seq) ==
    \A i, j \in 1..Len(seq) : seq[i] = seq[j] => i = j

\* C15: no transcript entry occurs more than once in the conversations list
\* of any discussion.
C15_NoEventDuplication ==
    \A id \in 1..Len(heap) : NoRepeats(heap[id].conversations)

\* C16: the returned list never holds the same discussion record at two
\* positions.
C16_FinalizedAtMostOnce ==
    NoRepeats(discussions)

\* This step processes an entry with a timestamp whose version id differs
\* from the active discussion's and is not in the known table.
SwitchToUnknown ==
    /\ EntryStep
    /\ current_discussion # NoDiscussion
    /\ Last(chronological_order').version_num # None
    /\ Last(chronological_order').timestamp # EmptyStr
    /\ Last(chronological_order').version_num # heap[current_discussion].version_id
    /\ Last(chronological_order').version_num \notin sg_data

\* C17 as stated: after a switch to an unknown version the active
\* discussion's version_id is the entry's version id.
C17_ProvisionalDiscussion ==
    [][SwitchToUnknown =>
          heap'[current_discussion'].version_id
              = Last(chronological_order').version_num]_vars

\* C17, amended: a switch to an unknown version creates no discussion.  The
\* last finalized discussion (the superseded one itself, or the one it was
\* merged into) becomes the active discussion; its version_id is a known
\* version and not the entry's, the entry is the last of its conversations,
\* its end_time is the entry's timestamp and the entry's version id is among
\* its references.
C17_SwitchToUnknown ==
    [][SwitchToUnknown =>
          LET entry == Last(chronological_order')
              active == heap'[current_discussion']
          IN /\ Len(heap') = Len(heap)
             /\ discussions' # << >>
             /\ current_discussion' = Last(discussions')
             /\ active.version_id \in sg_data
             /\ active.version_id # entry.version_num
             /\ Last(active.conversations) = Len(chronological_order')
             /\ active.end_time = entry.timestamp
             /\ entry.version_num \in RefIds(active.reference_versions)]_vars

\* The last step was a switch to an unknown version that finalized the
\* active discussion and then made it the active one again, carrying the
\* new reference.
C17_Witness ==
    /\ pc = "loop"
    /\ log # << >>
    /\ Last(log).op = "switch"
    /\ Last(log).decision = "finalize"
    /\ Last(log).mention_ref = "added"
    /\ Last(chronological_order).version_num \notin sg_data
    /\ current_discussion = Last(discussions)
    /\ heap[current_discussion].version_id # Last(chronological_order).version_num

\* The entry has a version id and a timestamp (it is not skipped by lines
\* 170-174).
Timed(e) == e.version_num # None /\ e.timestamp # EmptyStr

\* First index of the contiguous run of version v that ends the transcript:
\* no entry from there on switches to another version.
RunStart(order, v) ==
    CHOOSE i \in 1..(Len(order) + 1) :
        /\ \A k \in i..Len(order) : Timed(order[k]) => order[k].version_num = v
        /\ \A j \in 1..(i - 1) :
              \E k \in j..Len(order) : Timed(order[k]) /\ order[k].version_num # v

\* The contiguous run of version v that ends the transcript spans at least
\* threshold seconds, first to last timestamp, all its timestamps being of
\* HH:MM:SS shape.
LongRun(order, v, threshold) ==
    LET run == {k \in RunStart(order, v)..Len(order) : Timed(order[k])}
        first == CHOOSE k \in run : \A j \in run : k <= j
        last == CHOOSE k \in run : \A j \in run : j <= k
    IN /\ run # {}
       /\ \A k \in run : parse_timestamp(order[k].timestamp) # NoTime
       /\ parse_timestamp(order[last].timestamp)
            - parse_timestamp(order[first].timestamp) >= threshold

\* C18 as stated: a version with a contiguous run of at least the threshold
\* is in the reference_versions of no discussion of another version, be the
\* version known or not.
C18_ExtendedStandAlone ==
    \A n \in 1..Len(chronological_order) :
        \A v \in Versions :
            LongRun(SubSeq(chronological_order, 1, n), v, reference_threshold)
                => \A id \in 1..Len(heap) :
                       heap[id].version_id # v
                           => v \notin RefIds(heap[id].reference_versions)

\* This step supersedes the active discussion: a switch to another version,
\* or the end of the stream.
SupersedesActive ==
    /\ pc = "loop"
    /\ current_discussion # NoDiscussion
    /\ \/ pc' = "done"
       \/ /\ EntryStep
          /\ Timed(Last(chronological_order'))
          /\ Last(chronological_order').version_num
                # heap[current_discussion].version_id

\* C18, amended: when the active discussion is superseded at the end of a
\* contiguous run of its (known) version that spans at least the threshold,
\* the discussion is in the finalized list after the step and the step adds
\* its version id to no discussion's reference_versions.
C18_LongRunNotReferenced ==
    [][(/\ SupersedesActive
        /\ LongRun(chronological_order, heap[current_discussion].version_id,
                   reference_threshold))
          => /\ current_discussion \in Range(discussions')
             /\ heap[current_discussion].version_id \in sg_data
             /\ \A id \in 1..Len(heap) :
                   heap[current_discussion].version_id
                       \in RefIds(heap'[id].reference_versions)
                   => heap[current_discussion].version_id
                          \in RefIds(heap[id].reference_versions)]_vars

\* The last step superseded a discussion of 30 seconds or more while a
\* finalized discussion of another version existed: it was finalized, and
\* that other discussion does not reference it.
C18_Witness ==
    /\ log # << >>
    /\ Last(log).op \in {"switch", "final"}
    /\ Last(log).decision = "finalize"
    /\ Last(log).duration >= reference_threshold
    /\ Last(log).target # NoDiscussion
    /\ Last(log).target # Last(log).superseded
    /\ heap[Last(log).target].version_id # heap[Last(log).superseded].version_id
    /\ Last(log).superseded \in Range(discussions)
    /\ heap[Last(log).superseded].version_id
          \notin RefIds(heap[Last(log).target].reference_versions)

\* C19: on a switch that finds the active discussion shorter than the
\* threshold while a finalized discussion exists, the last finalized
\* discussion gains the reference (active version_id, active start_time)
\* unless that id is referenced already or is its own, gains the active
\* discussion's events once, after its own and in their order, takes the
\* active end_time only if that is later, and the finalized list is left as
\* it is.  An entry of an unknown version is then appended to the same
\* discussion (lines 236-243).
C19_MergeStep ==
    [][(/\ Supersedes
        /\ EntryStep
        /\ current_duration(heap[current_discussion]) < reference_threshold)
          => LET cur == heap[current_discussion]
                 prev_main == heap[Last(discussions)]
                 after == heap'[Last(discussions)]
                 entry == Last(chronological_order')
                 refs == IF \/ cur.version_id \in RefIds(prev_main.reference_versions)
                            \/ cur.version_id = prev_main.version_id
                         THEN prev_main.reference_versions
                         ELSE Append(prev_main.reference_versions,
                                     <<cur.version_id, cur.start_time>>)
                 events == prev_main.conversations \o cur.conversations
                 t_prev == parse_timestamp(prev_main.end_time)
                 t_cur == parse_timestamp(cur.end_time)
                 end_time == IF t_prev # NoTime /\ t_cur # NoTime
                             THEN {IF t_cur > t_prev THEN cur.end_time
                                   ELSE prev_main.end_time}
                             ELSE {prev_main.end_time, cur.end_time}
             IN /\ discussions' = discussions
                /\ after.version_id = prev_main.version_id
                /\ after.start_time = prev_main.start_time
                /\ IF entry.version_num \in sg_data
                   THEN /\ after.reference_versions = refs
                        /\ after.conversations = events
                        /\ after.end_time \in end_time
                   ELSE /\ SubSeq(after.reference_versions, 1, Len(refs)) = refs
                        /\ after.conversations
                              = Append(events, Len(chronological_order'))
                        /\ after.end_time = entry.timestamp]_vars

\* The last step was a switch to a known version that merged a brief
\* discussion into the finalized discussion of another version and added
\* its reference.
C19_Witness ==
    /\ log # << >>
    /\ Last(log).op = "switch"
    /\ Last(log).decision = "merge"
    /\ Last(log).merge_ref = "added"
    /\ Last(log).mention_ref = "none"
    /\ Last(log).target # Last(log).superseded
    /\ Len(heap[Last(log).target].conversations) >= 2
    /\ Len(heap[Last(log).target].reference_versions) >= 1

\* Index of the first entry with a known version id and a timestamp, or
\* Len(order) + 1 when there is none.
FirstKnown(order, sg) ==
    LET hits == {k \in 1..Len(order) : Timed(order[k]) /\ order[k].version_num \in sg}
    IN IF hits = {} THEN Len(order) + 1
       ELSE CHOOSE k \in hits : \A j \in hits : k <= j

\* C20: after the run, every entry from the first one with a known version
\* id and a timestamp onward is in the conversations of a discussion of the
\* returned list, in the events passed into an output row, and, when it has
\* text or a named speaker, among that row's lines.
C20_EventConservation ==
    pc = "done" =>
        \A i \in FirstKnown(chronological_order, sg_data)..Len(chronological_order) :
            /\ \E k \in 1..Len(discussions) :
                  i \in Range(heap[discussions[k]].conversations)
            /\ \E k \in 1..Len(all_conversations) :
                  /\ i \in Range(all_conversations[k])
                  /\ HasLine(chronological_order[i])
                        => SpokenLine(chronological_order[i])
                              \in Range(output_rows[k].conversation)

\* A finished run in which a brief discussion was merged at a switch and
\* another at the end of the stream, after an entry without version id:
\* three discussions were started and one is returned, holding all entries.
C20_Witness ==
    /\ pc = "done"
    /\ Len(chronological_order) = 4
    /\ FirstKnown(chronological_order, sg_data) = 1
    /\ \E k \in 1..Len(chronological_order) : ~Timed(chronological_order[k])
    /\ Len(heap) = 3
    /\ Len(discussions) = 1
    /\ Range(heap[discussions[1]].conversations) = 1..4

\* C21: every discussion ever created has a version id of the known table
\* and is_sg_version True (lines 245-254 are never executed), and a step
\* taken while a discussion is active leaves a discussion active.
C21_OnlyKnownDiscussions ==
    [][/\ \A id \in 1..Len(heap') :
             heap'[id].version_id \in sg_data /\ heap'[id].is_sg_version
       /\ current_discussion # NoDiscussion => current_discussion' # NoDiscussion
       /\ current_discussion' # NoDiscussion => current_discussion' \in 1..Len(heap')
      ]_vars

\* A version outside the known table was met with a timestamp both before
\* the first discussion and while a discussion was active, and a second
\* discussion was started after that.
C21_Witness ==
    /\ Len(heap) >= 2
    /\ current_discussion # NoDiscussion
    /\ Len(chronological_order) = 4
    /\ Timed(chronological_order[1])
    /\ chronological_order[1].version_num \notin sg_data
    /\ Timed(chronological_order[3])
    /\ chronological_order[3].version_num \notin sg_data
    /\ FirstKnown(chronological_order, sg_data) = 2
    /\ \A id \in 1..Len(heap) : heap[id].is_sg_version

\* C22: the step that ends the stream with a discussion active merges it
\* into the last finalized discussion when its duration is below the
\* threshold and a finalized discussion exists, and appends it to the list
\* otherwise (the test of a switch); after the pass every discussion
\* created is in the returned list or has all its events in a discussion of
\* the list.
C22_EndOfStream ==
    [][(pc' = "done" /\ current_discussion # NoDiscussion)
          => LET cur == heap[current_discussion]
                 brief == /\ Len(discussions) > 0
                          /\ calculate_time_difference(cur.start_time, cur.end_time)
                                < reference_threshold
             IN /\ brief = MergesAtSwitch(heap, discussions, current_discussion,
                                          reference_threshold)
                /\ brief =>
                      /\ discussions' = discussions
                      /\ heap'[Last(discussions)].conversations
                            = heap[Last(discussions)].conversations \o cur.conversations
                /\ ~brief =>
                      /\ discussions' = Append(discussions, current_discussion)
                      /\ heap' = heap
                /\ \A id \in 1..Len(heap') :
                      \/ id \in Range(discussions')
                      \/ \E k \in 1..Len(discussions') :
                            Range(heap'[id].conversations)
                                \subseteq Range(heap'[discussions'[k]].conversations)
      ]_vars

\* The stream ended with a brief discussion active, which was merged into
\* the finalized discussion of another version; an earlier brief discussion
\* had been merged at a switch.
C22_Witness ==
    /\ pc = "done"
    /\ log # << >>
    /\ Last(log).op = "final"
    /\ Last(log).decision = "merge"
    /\ Last(log).merge_ref = "added"
    /\ Last(log).target # Last(log).superseded
    /\ Last(log).superseded \notin Range(discussions)
    /\ \E k \in 1..(Len(log) - 1) : log[k].op = "switch" /\ log[k].decision = "merge"

\* C23: processing an entry without version id or without timestamp while
\* a discussion is active appends the entry to that discussion's
\* conversations and changes neither its version_id, start_time, end_time
\* or reference_versions, nor any other discussion, nor the finalized list.
C23_ContextualAppend ==
    [][(/\ EntryStep
        /\ ~Timed(Last(chronological_order'))
        /\ current_discussion # NoDiscussion)
          => LET before == heap[current_discussion]
                 after == heap'[current_discussion]
             IN /\ current_discussion' = current_discussion
                /\ after.conversations
                      = Append(before.conversations, Len(chronological_order'))
                /\ after.version_id = before.version_id
                /\ after.start_time = before.start_time
                /\ after.end_time = before.end_time
                /\ after.reference_versions = before.reference_versions
                /\ Len(heap') = Len(heap)
                /\ \A id \in 1..Len(heap) :
                      id # current_discussion => heap'[id] = heap[id]
                /\ discussions' = discussions]_vars

\* The last entry had no version id and went to the discussion that a
\* mention of an unknown version had made active again.
C23_Witness ==
    /\ pc = "loop"
    /\ log # << >>
    /\ Last(log).op = "skip"
    /\ Last(chronological_order).version_num = None
    /\ current_discussion # NoDiscussion
    /\ current_discussion \in Range(discussions)
    /\ heap[current_discussion].reference_versions # << >>
    /\ Last(heap[current_discussion].conversations) = Len(chronological_order)

\* C24: the first discussion of a run is finalized as its own discussion
\* whatever its duration: superseded while the finalized list is empty, it
\* becomes the list's first element, it stays there, and it yields the
\* first output row; a merge happens only into an existing finalized
\* discussion.
C24_FirstStandsAlone ==
    [][/\ (SupersedesActive /\ discussions = << >>)
            => /\ current_discussion = 1
               /\ discussions' = <<1>>
               /\ heap'[1].version_id = heap[1].version_id
               /\ heap'[1].start_time = heap[1].start_time
       /\ (SupersedesActive /\ discussions' = discussions) => discussions # << >>
       /\ discussions # << >> => (discussions' # << >> /\ discussions'[1] = 1)
       /\ (pc' = "done" /\ heap' # << >>)
            => /\ discussions'[1] = 1
               /\ output_rows' # << >>
               /\ output_rows'[1].version_id = heap'[1].version_id
               /\ output_rows'[1].reference_versions = heap'[1].reference_versions
      ]_vars

\* The first discussion lasted 0 seconds when a switch to another known
\* version finalized it; the run ended with a row for each of the two.
C24_Witness ==
    /\ pc = "done"
    /\ Len(log) >= 3
    /\ log[1].op = "first"
    /\ log[2].op = "switch"
    /\ log[2].decision = "finalize"
    /\ log[2].duration = 0
    /\ log[2].target = NoDiscussion
    /\ Len(discussions) = 2
    /\ discussions[1] = 1
    /\ output_rows[1].version_id = heap[1].version_id
    /\ output_rows[2].version_id # output_rows[1].version_id
    /\ ~IsPlaceholder(output_rows[2])

\* Every entry that has a timestamp has one of HH:MM:SS shape, and the times
\* of the transcript are in non-decreasing order.
WellFormedSorted(order) ==
    /\ \A k \in 1..Len(order) : ~Malformed(order[k].timestamp)
    /\ \A i, j \in 1..Len(order) :
          (i < j /\ order[i].timestamp # EmptyStr /\ order[j].timestamp # EmptyStr)
              => parse_timestamp(order[i].timestamp) <= parse_timestamp(order[j].timestamp)

\* C25: for a well-formed transcript in time order, every discussion at a
\* position of the finalized list other than the first lasts at least the
\* threshold, in every state from its finalization on.
C25_LaterDiscussionsLong ==
    WellFormedSorted(chronological_order) =>
        \A k \in 2..Len(discussions) :
            LET d == heap[discussions[k]]
            IN /\ parse_timestamp(d.start_time) # NoTime
               /\ parse_timestamp(d.end_time) # NoTime
               /\ parse_timestamp(d.end_time) - parse_timestamp(d.start_time)
                     >= reference_threshold

\* A sorted transcript whose second finalized discussion lasted exactly the
\* threshold and was extended afterwards by the mention of an unknown
\* version.
C25_Witness ==
    /\ WellFormedSorted(chronological_order)
    /\ Len(discussions) = 2
    /\ discussions[1] # discussions[2]
    /\ heap[discussions[2]].reference_versions # << >>
    /\ \E k \in 1..Len(log) :
          /\ log[k].superseded = discussions[2]
          /\ log[k].decision = "finalize"
          /\ log[k].duration = reference_threshold

\* C26: no step changes a finalized discussion that stands at a position of
\* the list other than the last.
C26_OnlyTailMutable ==
    [][\A k \in 1..(Len(discussions) - 1) :
          heap'[discussions[k]] = heap[discussions[k]]]_vars

\* C27: after a run over a well-formed transcript in time order, the
\* returned discussions are in non-decreasing start_time order, the first
\* Len(discussions) output rows are theirs, in that order, and all rows
\* after them are placeholder rows.
C27_OutputOrder ==
    (pc = "done" /\ WellFormedSorted(chronological_order)) =>
        /\ \A k \in 1..(Len(discussions) - 1) :
              parse_timestamp(heap[discussions[k]].start_time)
                  <= parse_timestamp(heap[discussions[k + 1]].start_time)
        /\ Len(output_rows) >= Len(discussions)
        /\ \A k \in 1..Len(discussions) :
              /\ output_rows[k].version_id = heap[discussions[k]].version_id
              /\ output_rows[k].reference_versions
                    = heap[discussions[k]].reference_versions
              /\ output_rows[k].conversation # << >>
        /\ \A k \in (Len(discussions) + 1)..Len(output_rows) :
              /\ IsPlaceholder(output_rows[k])
              /\ \A j \in 1..Len(discussions) :
                    output_rows[k].version_id # heap[discussions[j]].version_id

\* A sorted run that returned two discussions, of different versions and
\* different start times, and a row for each.
C27_Witness ==
    /\ pc = "done"
    /\ WellFormedSorted(chronological_order)
    /\ Len(discussions) = 2
    /\ heap[discussions[1]].version_id # heap[discussions[2]].version_id
    /\ parse_timestamp(heap[discussions[1]].start_time)
          < parse_timestamp(heap[discussions[2]].start_time)
    /\ Len(output_rows) = 2
    /\ output_rows[1].version_id = heap[discussions[1]].version_id
    /\ output_rows[2].version_id = heap[discussions[2]].version_id

\* The entries passed to format_conversation for output row k, in the order
\* of line 99.
RowEvents(k) ==
    LET sorted == sorted_conversations(chronological_order, all_conversations[k])
    IN [j \in 1..Len(sorted) |-> chronological_order[sorted[j]]]

\* The entry has non-empty text or a non-empty speaker.
StatedHasLine(e) == e.text # "" \/ e.speaker # ""

\* '<speaker>: <text>' for non-empty text, else '<speaker>: [conversation
\* occurred]'.
StatedLine(e) ==
    IF e.text # "" THEN <<e.speaker, e.text>>
    ELSE <<e.speaker, "[conversation occurred]">>

\* C28 as stated: the conversation of a row has the line '<speaker>: <text>'
\* for each entry with non-empty text, '<speaker>: [conversation occurred]'
\* for each entry with empty text and non-empty speaker, nothing for the
\* others; the number of lines is the number of entries with non-empty text
\* or non-empty speaker; no entries give the empty string.
C28_FormatAsStated ==
    /\ format_conversation(chronological_order, << >>) = << >>
    /\ pc = "done" =>
          \A k \in 1..Len(all_conversations) :
              LET spoken == SelectSeq(RowEvents(k), StatedHasLine)
              IN /\ Len(output_rows[k].conversation) = Len(spoken)
                 /\ output_rows[k].conversation
                       = [j \in 1..Len(spoken) |-> StatedLine(spoken[j])]

\* C28, amended: text is taken stripped, and the line
\* '<speaker>: [conversation occurred]' is emitted when the stripped text is
\* empty and the speaker is non-empty and not 'Unknown'; the number of
\* lines is the number of entries with non-blank text or such a speaker.
C28_ConversationFormatting ==
    /\ format_conversation(chronological_order, << >>) = << >>
    /\ pc = "done" =>
          \A k \in 1..Len(all_conversations) :
              LET spoken == SelectSeq(RowEvents(k), HasLine)
              IN /\ Len(output_rows[k].conversation) = Len(spoken)
                 /\ output_rows[k].conversation
                       = [j \in 1..Len(spoken) |-> SpokenLine(spoken[j])]

\* A row made of four entries: one with text, one with blank text by a
\* named speaker, one without text by 'Unknown' and one with neither text
\* nor speaker; it has two lines.
C28_Witness ==
    /\ pc = "done"
    /\ Len(chronological_order) = 4
    /\ Len(all_conversations) = 1
    /\ Len(all_conversations[1]) = 4
    /\ \E a, b, c, d \in 1..4 :
          /\ chronological_order[a].text = "looks good"
          /\ chronological_order[b].text = " "
          /\ chronological_order[c].speaker = "Unknown"
          /\ chronological_order[d].speaker = "" /\ chronological_order[d].text = ""
    /\ Len(output_rows[1].conversation) = 2
    /\ <<"Carol", "[conversation occurred]">> \in Range(output_rows[1].conversation)

\* The version ids of the placeholder rows at the end of the output, in
\* row order.
ResidualIds ==
    LET n == Len(all_conversations)
    IN [k \in 1..(Len(output_rows) - n) |-> output_rows[n + k].version_id]

\* C29: the placeholder rows come in the one order the inputs determine,
\* ascending by numeric value of the version id.
C29_ResidualOrdering ==
    pc = "done" =>
        /\ \A i, j \in 1..Len(ResidualIds) :
              i < j => IntOf(ResidualIds[i]) <= IntOf(ResidualIds[j])
        /\ ResidualIds = CHOOSE seq \in SortedByInt(Range(ResidualIds)) : TRUE

\* The string is made of three colon-separated integers.
ThreeIntegers(ts) ==
    Len(ts) = 3 /\ \A k \in 1..3 : ts[k] # NotAnInteger

\* C30: parse_timestamp returns a time for every string of three
\* colon-separated integers, and returns None, without raising, for every
\* other string.
C30_TimestampParsing ==
    pc \in {"returned", "raised"} =>
        /\ pc = "returned"
        /\ IF ThreeIntegers(parse_arg) THEN parse_ret >= 0
           ELSE parse_ret = NoTime

====
